---- MODULE Spec2Model ----
(***************************************************************************)
(* phase-change: conversion of a file from one format to another, directly *)
(* or through a chain of registered converters.                           *)
(*                                                                         *)
(* Three specifications are given.                                         *)
(*   Spec          a FileConvertBuilder is configured and then consumed by *)
(*                 convert(): registration of the custom converters,       *)
(*                 validation, output path, direct attempt, path search    *)
(*                 and multi-hop execution.                                *)
(*   SpecRegistry  a ConverterRegistry is used through its own public      *)
(*                 methods: register, can_convert, find_conversion_path.   *)
(*   FairSpecRegistry  SpecRegistry with a started search running on to    *)
(*                 its return.                                             *)
(***************************************************************************)
EXTENDS Integers, Sequences, FiniteSets, TLC

VARIABLES
    from,               \* FileConvertBuilder.from : (FileType, PathBuf)
    to,                 \* FileConvertBuilder.to   : (FileType, Option<PathBuf>)
    registry,           \* "Some" / "None": whether a ConverterRegistry is held
    converters,         \* ConverterRegistry.converters : (from, to) -> converter
    custom_converters,  \* FileConvertBuilder.custom_converters
    nreg,               \* number of register calls made after ConverterRegistry::new
    pc,                 \* position of the running method
    output_path,        \* convert: the resolved output path
    search_from,        \* find_conversion_path: argument from
    search_to,          \* find_conversion_path: argument to
    queue,              \* find_conversion_path: VecDeque of formats
    visited,            \* find_conversion_path: HashSet of formats
    parent,             \* find_conversion_path: HashMap format -> format
    dequeued,           \* formats popped from the queue by the running search
    path,               \* Option<Vec<FileType>> returned by find_conversion_path
    answer,             \* value returned by the last can_convert call
    hop,                \* convert: index of the current window of the path
    current_input,      \* convert: input path of the current hop
    calls,              \* capability invocations of the request, in order
    artifacts,          \* files written by capabilities: path -> content
    result              \* value returned by convert

vars == <<from, to, registry, converters, custom_converters, nreg, pc,
          output_path, search_from, search_to, queue, visited, parent,
          dequeued, path, answer, hop, current_input, calls, artifacts,
          result>>

(***************************************************************************)
(* Bounds of the model.                                                    *)
(***************************************************************************)
\* converters pushed on a builder before convert()
MaxCustom == 2
\* register calls made on a registry after ConverterRegistry::new()
MaxRegister == 4

(***************************************************************************)
(* Format taxonomy: FileType, ImageFileType, AudioFileType.                *)
(***************************************************************************)
Unknown == "Unknown"
PNG == "Image(PNG)"
JPEG == "Image(JPEG)"
MP3 == "Audio(MP3)"
WAV == "Audio(WAV)"

FileType == {Unknown, PNG, JPEG, MP3, WAV}

get_extension_for_type(file_type) ==
    CASE file_type = Unknown -> "unknown"
      [] file_type = PNG -> "png"
      [] file_type = JPEG -> "jpg"
      [] file_type = MP3 -> "mp3"
      [] file_type = WAV -> "wav"

(***************************************************************************)
(* Option<T>: None is the empty sequence, Some(x) the one-element one.     *)
(***************************************************************************)
None == <<>>
Some(x) == <<x>>
IsSome(o) == Len(o) = 1
Unwrap(o) == o[1]

(***************************************************************************)
(* PathBuf.  A path is its directory, its file stem and its extension; the *)
(* number of leading "temp_" marks of the file name is kept apart from the *)
(* rest of the stem, so that "temp_temp_a.jpg" is [temps |-> 2, stem |->   *)
(* "a", ext |-> "jpg"].  The default PathBuf is the empty path, which has  *)
(* no file name.                                                           *)
(***************************************************************************)
MkPath(d, n, s, e) == [dir |-> d, temps |-> n, stem |-> s, ext |-> e]

EmptyPath == MkPath("", 0, "", "")

file_name_is_some(p) == p.stem # "" \/ p.temps > 0

\* PathBuf::set_extension: nothing without a file name, else the extension
\* after the stem is replaced
set_extension(p, e) ==
    IF file_name_is_some(p) THEN [p EXCEPT !.ext = e] ELSE p

\* set_file_name(format!("temp_{}", file_name)): same directory, marked name
TempPrefix(p) == [p EXCEPT !.temps = @ + 1]

(***************************************************************************)
(* Converter capabilities.  A converter is its declared edge and the name  *)
(* of the implementation behind it; two instances of one implementation    *)
(* behave alike.                                                           *)
(***************************************************************************)
Converter(f, t, n) == [from_type |-> f, to_type |-> t, name |-> n]

\* the built-in capability, converters/image/png.rs
PngToJpeg == Converter(PNG, JPEG, "PngToJpeg")

\* the converters a caller supplies in this model
Catalogue ==
    { Converter(PNG, JPEG, "A"), Converter(PNG, JPEG, "B"),
      Converter(JPEG, MP3, "A"), Converter(MP3, WAV, "A"),
      Converter(PNG, MP3, "A"), Converter(PNG, Unknown, "A"),
      Converter(Unknown, WAV, "A"), Converter(WAV, MP3, "A"),
      Converter(MP3, PNG, "A"), Converter(JPEG, JPEG, "A") }

(***************************************************************************)
(* ConverterRegistry.                                                      *)
(***************************************************************************)
EmptyMap == [k \in {} |-> k]

Key(converter) == <<converter.from_type, converter.to_type>>

\* mutant of register: an occupied key keeps its converter
register_keep_first(reg, converter) == reg @@ (Key(converter) :> converter)

\* HashMap::insert under the converter's key: a present entry is replaced
register(reg, converter) == (Key(converter) :> converter) @@ reg

\* ConverterRegistry::new
new == register(EmptyMap, PngToJpeg)

\* mutant of can_convert: the key is built the wrong way round
can_convert_reversed(reg, f, t) == <<t, f>> \in DOMAIN reg

\* mutant of can_convert: a chain of two edges counts as well
can_convert_chained(reg, f, t) ==
    \/ <<f, t>> \in DOMAIN reg
    \/ \E m \in FileType : <<f, m>> \in DOMAIN reg /\ <<m, t>> \in DOMAIN reg

\* contains_key(&(from, to))
can_convert(reg, f, t) == <<f, t>> \in DOMAIN reg

(***************************************************************************)
(* find_conversion_path: breadth-first search over the registered edges.   *)
(***************************************************************************)
\* mutant of IdentityPath: the identity is taken for a hop
IdentityPathAsHop(f) == <<f, f>>

\* line 176: vec![from]
IdentityPath(f) == <<f>>

\* mutant of Neighbours: the edges are followed backwards
NeighboursBackwards(reg, current, seen) ==
    { k[1] : k \in { e \in DOMAIN reg : e[2] = current /\ e[1] \notin seen } }

\* the to_type of every entry with from_type == current not yet visited
Neighbours(reg, current, seen) ==
    { k[2] : k \in { e \in DOMAIN reg : e[1] = current /\ e[2] \notin seen } }

\* the orders in which the HashMap iteration may push a set of formats
Orders(S) ==
    { s \in [1..Cardinality(S) -> S] :
        \A i, j \in 1..Cardinality(S) : s[i] = s[j] => i = j }

\* mutant of NextCurrent: the newest entry of the queue is taken (pop_back)
NextCurrentBack(q) == [current |-> q[Len(q)], rest |-> SubSeq(q, 1, Len(q) - 1)]

\* queue.pop_front() on a non-empty queue
NextCurrent(q) == [current |-> Head(q), rest |-> Tail(q)]

RECURSIVE WalkBack(_, _)
\* lines 188-194: the node, then the chain of its recorded predecessors
WalkBack(par, node) ==
    IF node \in DOMAIN par
    THEN <<node>> \o WalkBack(par, par[node])
    ELSE <<node>>

Reverse(s) == [i \in 1..Len(s) |-> s[Len(s) + 1 - i]]

\* mutant of ReconstructPath: path.reverse() is left out
ReconstructPathUnreversed(par, node) == WalkBack(par, node)

\* lines 188-197
ReconstructPath(par, node) == Reverse(WalkBack(par, node))

\* mutant of Visit: the pushed formats are not recorded as visited
VisitForgotten(seen, N) == seen

\* line 202: visited.insert(to_type) for every pushed format
Visit(seen, N) == seen \cup N

SearchVars == <<search_from, search_to, queue, visited, parent, dequeued, path>>

\* lines 174-184: the call, up to the first test of the loop
FindStart(f, t) ==
    /\ search_from' = f
    /\ search_to' = t
    /\ dequeued' = <<>>
    /\ IF f = t
       THEN /\ path' = Some(IdentityPath(f))
            /\ queue' = <<>>
            /\ visited' = {}
            /\ parent' = EmptyMap
            /\ pc' = "found"
       ELSE /\ path' = None
            /\ queue' = <<f>>
            /\ visited' = {f}
            /\ parent' = EmptyMap
            /\ pc' = "search"

\* lines 186-209: one turn of the while loop, or the return after it
SearchStep ==
    /\ pc = "search"
    /\ IF queue = <<>>
       THEN /\ path' = None
            /\ pc' = "found"
            /\ UNCHANGED <<queue, visited, parent, dequeued>>
       ELSE LET current == NextCurrent(queue).current
                rest == NextCurrent(queue).rest
            IN /\ dequeued' = Append(dequeued, current)
               /\ IF current = search_to
                  THEN /\ path' = Some(ReconstructPath(parent, current))
                       /\ pc' = "found"
                       /\ queue' = rest
                       /\ UNCHANGED <<visited, parent>>
                  ELSE LET N == Neighbours(converters, current, visited)
                       IN /\ \E order \in Orders(N) : queue' = rest \o order
                          /\ visited' = Visit(visited, N)
                          /\ parent' = [n \in N |-> current] @@ parent
                          /\ UNCHANGED <<path, pc>>
    /\ UNCHANGED <<search_from, search_to>>

(***************************************************************************)
(* SpecRegistry: a ConverterRegistry used through its public methods.      *)
(***************************************************************************)
BuilderVars == <<from, to, registry, custom_converters, output_path, hop,
                 current_input, calls, artifacts, result>>

Pending == [status |-> "Pending", kind |-> "-", from |-> "-", to |-> "-", name |-> "-"]

\* FileConvertBuilder::default(): every field at its default
DefaultBuilder ==
    /\ from = [type |-> Unknown, path |-> EmptyPath]
    /\ to = [type |-> Unknown, path |-> None]
    /\ custom_converters = <<>>
    /\ output_path = EmptyPath
    /\ hop = 0
    /\ current_input = EmptyPath
    /\ calls = <<>>
    /\ artifacts = EmptyMap
    /\ result = Pending

NoSearch ==
    /\ search_from = Unknown
    /\ search_to = Unknown
    /\ queue = <<>>
    /\ visited = {}
    /\ parent = EmptyMap
    /\ dequeued = <<>>
    /\ path = None

\* the locals of a returned search are dropped
DropSearch ==
    /\ search_from' = Unknown
    /\ search_to' = Unknown
    /\ queue' = <<>>
    /\ visited' = {}
    /\ parent' = EmptyMap
    /\ dequeued' = <<>>
    /\ path' = None

InitRegistry ==
    /\ DefaultBuilder
    /\ NoSearch
    /\ registry = "Some"
    /\ converters = new
    /\ nreg = 0
    /\ answer = None
    /\ pc = "idle"

\* registry.register(converter)
Register(converter) ==
    /\ pc = "idle"
    /\ nreg < MaxRegister
    /\ converters' = register(converters, converter)
    /\ nreg' = nreg + 1
    /\ UNCHANGED <<pc, answer>>
    /\ UNCHANGED SearchVars
    /\ UNCHANGED BuilderVars

\* registry.can_convert(f, t)
CanConvert(f, t) ==
    /\ pc = "idle"
    /\ answer' = Some([from |-> f, to |-> t, value |-> can_convert(converters, f, t)])
    /\ pc' = "answered"
    /\ UNCHANGED <<converters, nreg>>
    /\ UNCHANGED SearchVars
    /\ UNCHANGED BuilderVars

\* registry.find_conversion_path(f, t): the call
Find(f, t) ==
    /\ pc = "idle"
    /\ FindStart(f, t)
    /\ UNCHANGED <<converters, nreg, answer>>
    /\ UNCHANGED BuilderVars

\* registry.find_conversion_path(f, t): the loop
FindStep ==
    /\ SearchStep
    /\ UNCHANGED <<converters, nreg, answer>>
    /\ UNCHANGED BuilderVars

\* the caller has the returned value and drops it
Return ==
    /\ pc \in {"found", "answered"}
    /\ pc' = "idle"
    /\ answer' = None
    /\ DropSearch
    /\ UNCHANGED <<converters, nreg>>
    /\ UNCHANGED BuilderVars

NextRegistry ==
    \/ \E c \in Catalogue : Register(c)
    \/ \E f, t \in FileType : CanConvert(f, t)
    \/ \E f, t \in FileType : Find(f, t)
    \/ FindStep
    \/ Return

SpecRegistry == InitRegistry /\ [][NextRegistry]_vars

\* find_conversion_path is synchronous: a started search keeps taking its turns
FairSpecRegistry == SpecRegistry /\ WF_vars(FindStep)

(***************************************************************************)
(* Results.  An anyhow error is its message: the kind, the two formats the *)
(* message names, and for a failed capability the converter that failed.   *)
(***************************************************************************)
Ok == [status |-> "Ok", kind |-> "-", from |-> "-", to |-> "-", name |-> "-"]

Err(k, f, t, n) == [status |-> "Err", kind |-> k, from |-> f, to |-> t, name |-> n]

\* line 63: "No converter registry available"
NoRegistryError == Err("NoRegistry", "-", "-", "-")

\* line 70: "Source file type not specified"
SourceNotSpecified == Err("SourceNotSpecified", "-", "-", "-")

\* line 74: "Target file type not specified"
TargetNotSpecified == Err("TargetNotSpecified", "-", "-", "-")

\* line 170: "No converter available from {:?} to {:?}"
NoConverterError(f, t) == Err("NoConverter", f, t, "-")

\* mutant of NoConversionPathError: the endpoints are named the wrong way round
NoConversionPathErrorSwapped(f, t) == Err("NoConversionPath", t, f, "-")

\* line 114: "No conversion path available from {:?} to {:?}"
NoConversionPathError(f, t) == Err("NoConversionPath", f, t, "-")

\* the error a capability returns from its I/O or its codec
ConversionFailure(c) == Err("ConversionFailure", c.from_type, c.to_type, c.name)

(***************************************************************************)
(* Capabilities at work.  A call ends in success, in a failure that left   *)
(* the output path alone, or in a failure after the output path was        *)
(* created.  The content of a file is the format of its bytes, "partial"   *)
(* for an unfinished file and "empty" for a truncated one.                 *)
(***************************************************************************)
Outcomes == {"ok", "fail_clean", "fail_partial"}

\* what a capability reads at p: a file of the request, or the caller's source
ContentAt(files, p, declared) == IF p \in DOMAIN files THEN files[p] ELSE declared

\* PngToJpeg::convert: the encoded JPEG is overwritten by a copy of the input
PngToJpegWrites(files, input, output, declared) ==
    IF input = output THEN "empty" ELSE ContentAt(files, input, declared)

\* the files after a call of converter c on (input, output) ending in outcome o;
\* a caller's converter that succeeds leaves an artifact of its target format
FilesAfter(files, c, input, output, o, declared) ==
    CASE o = "fail_clean" -> files
      [] o = "fail_partial" -> (output :> "partial") @@ files
      [] o = "ok" ->
            IF c = PngToJpeg
            THEN (output :> PngToJpegWrites(files, input, output, declared)) @@ files
            ELSE (output :> c.to_type) @@ files

ReturnOf(c, o) == IF o = "ok" THEN Ok ELSE ConversionFailure(c)

Call(c, input, output) ==
    [converter |-> c, input |-> input, output |-> output, ret |-> Pending]

(***************************************************************************)
(* FileConvertBuilder.                                                     *)
(***************************************************************************)
\* the paths callers name in this model
SourcePaths == { MkPath("resources", 0, "input", "png") }

OutputPaths == { MkPath("", 0, "output", "jpg"),
                 MkPath("resources", 1, "input", "jpg") }

\* FileConvertBuilder::new() or FileConvertBuilder::default()
Init ==
    /\ DefaultBuilder
    /\ NoSearch
    /\ registry \in {"Some", "None"}
    /\ converters = IF registry = "Some" THEN new ELSE EmptyMap
    /\ nreg = 0
    /\ answer = None
    /\ pc = "build"

ConvertVars == <<converters, nreg, output_path, hop, current_input, calls,
                 artifacts, result, answer>>

from_file(file_type, file_location) ==
    /\ pc = "build"
    /\ from' = [type |-> file_type, path |-> file_location]
    /\ UNCHANGED <<to, registry, custom_converters, pc>>
    /\ UNCHANGED ConvertVars
    /\ UNCHANGED SearchVars

to_file(file_type, file_location) ==
    /\ pc = "build"
    /\ to' = [type |-> file_type, path |-> file_location]
    /\ UNCHANGED <<from, registry, custom_converters, pc>>
    /\ UNCHANGED ConvertVars
    /\ UNCHANGED SearchVars

with_converter(converter) ==
    /\ pc = "build"
    /\ Len(custom_converters) < MaxCustom
    /\ custom_converters' = Append(custom_converters, converter)
    /\ UNCHANGED <<from, to, registry, pc>>
    /\ UNCHANGED ConvertVars
    /\ UNCHANGED SearchVars

with_converters(cs) ==
    /\ pc = "build"
    /\ Len(custom_converters) + Len(cs) <= MaxCustom
    /\ custom_converters' = custom_converters \o cs
    /\ UNCHANGED <<from, to, registry, pc>>
    /\ UNCHANGED ConvertVars
    /\ UNCHANGED SearchVars

\* lines 77-84
ResolveOutput(frm, target) ==
    IF IsSome(target.path)
    THEN Unwrap(target.path)
    ELSE set_extension(frm.path, get_extension_for_type(target.type))

\* mutant of TempPath: the file name is not marked as temporary
TempPathUnmarked(input, to_type) ==
    set_extension(input, get_extension_for_type(to_type))

\* lines 100-103
TempPath(input, to_type) ==
    TempPrefix(set_extension(input, get_extension_for_type(to_type)))

\* lines 97-104
HopOutput(to_type, target_type, out, input) ==
    IF to_type = target_type THEN out ELSE TempPath(input, to_type)

\* mutant of NextInput: every hop reads the source again
NextInputStale(temp_output, input) == input

\* line 107: current_input = temp_output
NextInput(temp_output, input) == temp_output

\* mutant of Propagates: the result of a hop is dropped
PropagatesNever(ret) == FALSE

\* line 106: the ? operator returns an Err to the caller of convert
Propagates(ret) == ret.status = "Err"

\* mutant of NotSpecified: the validation is left out
NotSpecifiedNever(file_type) == FALSE

\* lines 69 and 73: the declared format is the Unknown sentinel
NotSpecified(file_type) == file_type = Unknown

\* line 63: the registry is taken out of the builder, or the request fails;
\* the builder is consumed by the call, its emptied field is not read again
ConvertBegin ==
    /\ pc = "build"
    /\ IF registry = "None"
       THEN /\ result' = NoRegistryError
            /\ pc' = "done"
       ELSE /\ pc' = "register"
            /\ UNCHANGED result
    /\ UNCHANGED <<from, to, registry, custom_converters, converters, nreg,
                   output_path, hop, current_input, calls, artifacts, answer>>
    /\ UNCHANGED SearchVars

\* lines 65-67: one turn of the loop over the custom converters
ConvertRegister ==
    /\ pc = "register"
    /\ nreg < Len(custom_converters)
    /\ converters' = register(converters, custom_converters[nreg + 1])
    /\ nreg' = nreg + 1
    /\ UNCHANGED <<from, to, registry, custom_converters, pc, output_path, hop,
                   current_input, calls, artifacts, result, answer>>
    /\ UNCHANGED SearchVars

\* lines 69-90: validation, output path, and the direct call or the start of
\* the path search
ConvertResolve ==
    /\ pc = "register"
    /\ nreg = Len(custom_converters)
    /\ UNCHANGED <<from, to, registry, custom_converters, converters, nreg,
                   hop, current_input, artifacts, answer>>
    /\ IF NotSpecified(from.type)
       THEN /\ result' = SourceNotSpecified
            /\ pc' = "done"
            /\ UNCHANGED <<output_path, calls>>
            /\ UNCHANGED SearchVars
       ELSE IF NotSpecified(to.type)
       THEN /\ result' = TargetNotSpecified
            /\ pc' = "done"
            /\ UNCHANGED <<output_path, calls>>
            /\ UNCHANGED SearchVars
       ELSE /\ output_path' = ResolveOutput(from, to)
            /\ UNCHANGED result
            /\ IF can_convert(converters, from.type, to.type)
               THEN /\ calls' = <<Call(converters[<<from.type, to.type>>],
                                       from.path, ResolveOutput(from, to))>>
                    /\ pc' = "direct"
                    /\ UNCHANGED SearchVars
               ELSE /\ FindStart(from.type, to.type)
                    /\ UNCHANGED calls

\* line 90: the loop of find_conversion_path
ConvertSearch ==
    /\ SearchStep
    /\ UNCHANGED <<from, to, registry, custom_converters>>
    /\ UNCHANGED ConvertVars

\* the called capability returns with outcome o
Returned(o) ==
    LET c == calls[Len(calls)]
    IN /\ calls' = [calls EXCEPT ![Len(calls)].ret = ReturnOf(c.converter, o)]
       /\ artifacts' = FilesAfter(artifacts, c.converter, c.input, c.output, o, from.type)

\* line 87: the direct capability returns and its result is the request's
DirectReturn(o) ==
    /\ pc = "direct"
    /\ Returned(o)
    /\ result' = ReturnOf(calls[1].converter, o)
    /\ pc' = "done"
    /\ UNCHANGED <<from, to, registry, custom_converters, converters, nreg,
                   output_path, hop, current_input, answer>>
    /\ UNCHANGED SearchVars

\* lines 90-93 and 114: the search has returned
ConvertPath ==
    /\ pc = "found"
    /\ IF IsSome(path)
       THEN /\ current_input' = from.path
            /\ hop' = 1
            /\ pc' = "hops"
            /\ UNCHANGED result
       ELSE /\ result' = NoConversionPathError(from.type, to.type)
            /\ pc' = "done"
            /\ UNCHANGED <<current_input, hop>>
    /\ UNCHANGED <<from, to, registry, custom_converters, converters, nreg,
                   output_path, calls, artifacts, answer>>
    /\ UNCHANGED SearchVars

\* lines 95-106 and 111: the next window of the path, up to the call of its
\* capability; or the end of the loop
HopCall ==
    /\ pc = "hops"
    /\ LET p == Unwrap(path)
       IN IF hop > Len(p) - 1
          THEN /\ result' = Ok
               /\ pc' = "done"
               /\ UNCHANGED calls
          ELSE LET from_type == p[hop]
                   to_type == p[hop + 1]
                   temp_output == HopOutput(to_type, to.type, output_path, current_input)
               IN IF <<from_type, to_type>> \in DOMAIN converters
                  THEN /\ calls' = Append(calls, Call(converters[<<from_type, to_type>>],
                                                      current_input, temp_output))
                       /\ pc' = "running"
                       /\ UNCHANGED result
                  ELSE /\ result' = NoConverterError(from_type, to_type)
                       /\ pc' = "done"
                       /\ UNCHANGED calls
    /\ UNCHANGED <<from, to, registry, custom_converters, converters, nreg,
                   output_path, hop, current_input, artifacts, answer>>
    /\ UNCHANGED SearchVars

\* lines 106-107: the capability of the current window returns
HopReturn(o) ==
    /\ pc = "running"
    /\ Returned(o)
    /\ IF ~Propagates(ReturnOf(calls[Len(calls)].converter, o))
       THEN /\ current_input' = NextInput(calls[Len(calls)].output, current_input)
            /\ hop' = hop + 1
            /\ pc' = "hops"
            /\ UNCHANGED result
       ELSE /\ result' = ReturnOf(calls[Len(calls)].converter, o)
            /\ pc' = "done"
            /\ UNCHANGED <<current_input, hop>>
    /\ UNCHANGED <<from, to, registry, custom_converters, converters, nreg,
                   output_path, answer>>
    /\ UNCHANGED SearchVars

Next ==
    \/ \E t \in FileType, p \in SourcePaths : from_file(t, p)
    \/ \E t \in FileType, p \in {None} \cup {Some(q) : q \in OutputPaths} : to_file(t, p)
    \/ \E c \in Catalogue : with_converter(c)
    \/ \E c, d \in Catalogue : with_converters(<<c, d>>)
    \/ ConvertBegin
    \/ ConvertRegister
    \/ ConvertResolve
    \/ ConvertSearch
    \/ \E o \in Outcomes : DirectReturn(o)
    \/ ConvertPath
    \/ HopCall
    \/ \E o \in Outcomes : HopReturn(o)

Spec == Init /\ [][Next]_vars

(***************************************************************************)
(* Reference notions on the graph of registered edges.                     *)
(***************************************************************************)
Successors(reg, S) == { e[2] : e \in { k \in DOMAIN reg : k[1] \in S } }

RECURSIVE ReachWithin(_, _, _)
\* the formats that chains of at most k registered edges lead to from f
ReachWithin(reg, f, k) ==
    IF k = 0 THEN {f}
    ELSE LET R == ReachWithin(reg, f, k - 1) IN R \cup Successors(reg, R)

Reachable(reg, f, t) == t \in ReachWithin(reg, f, Cardinality(FileType))

MinHops(reg, f, t) ==
    CHOOSE k \in 0..Cardinality(FileType) :
        /\ t \in ReachWithin(reg, f, k)
        /\ \A j \in 0..(k - 1) : t \notin ReachWithin(reg, f, j)

ExampleEdges ==
    { <<PNG, JPEG>>, <<JPEG, MP3>>, <<PNG, Unknown>>, <<Unknown, WAV>>, <<WAV, MP3>> }

(***************************************************************************)
(* C1: whenever find_conversion_path(from, to) with from # to returns      *)
(* Some(path), len(path) - 1 is the least number of registered edges that  *)
(* lead from `from` to `to`; with the edges (A,B), (B,C), (A,D), (D,E),    *)
(* (E,C) and no (A,C) the path returned for (A,C) is [A,B,C].              *)
(***************************************************************************)
C1_MinimumHops ==
    (pc = "found" /\ search_from # search_to /\ IsSome(path)) =>
        /\ Len(Unwrap(path)) - 1 = MinHops(converters, search_from, search_to)
        /\ (DOMAIN converters = ExampleEdges /\ search_from = PNG /\ search_to = MP3)
               => path = Some(<<PNG, JPEG, MP3>>)

C1_Witness ==
    /\ pc = "found"
    /\ DOMAIN converters = ExampleEdges
    /\ search_from = PNG
    /\ search_to = MP3
    /\ path = Some(<<PNG, JPEG, MP3>>)

(***************************************************************************)
(* C2: find_conversion_path(from, to) returns None exactly when no chain   *)
(* of registered edges leads from `from` to `to`, cycles or not.           *)
(***************************************************************************)
C2_NoneIffUnreachable ==
    pc = "found" => (path = None <=> ~Reachable(converters, search_from, search_to))

C2_Witness ==
    /\ pc = "found"
    /\ {<<MP3, WAV>>, <<WAV, MP3>>} \subseteq DOMAIN converters
    /\ search_from = MP3
    /\ search_to = JPEG
    /\ path = None
    /\ Len(dequeued) >= 2

(***************************************************************************)
(* C3 as stated: for every registered edge (A,B), can_convert(A,B) is true *)
(* and find_conversion_path(A,B) returns [A,B].                            *)
(***************************************************************************)
C3_Original ==
    /\ (pc = "answered" /\ <<Unwrap(answer).from, Unwrap(answer).to>> \in DOMAIN converters)
           => Unwrap(answer).value
    /\ (pc = "found" /\ <<search_from, search_to>> \in DOMAIN converters)
           => path = Some(<<search_from, search_to>>)

(***************************************************************************)
(* C3 amended: for every registered edge (A,B), can_convert(A,B) is true;  *)
(* find_conversion_path(A,B) returns [A,B] when A # B and [A] when A = B.  *)
(***************************************************************************)
C3_DirectEdge ==
    /\ (pc = "answered" /\ <<Unwrap(answer).from, Unwrap(answer).to>> \in DOMAIN converters)
           => Unwrap(answer).value
    /\ (pc = "found" /\ <<search_from, search_to>> \in DOMAIN converters)
           => path = Some(IF search_from = search_to
                          THEN <<search_from>>
                          ELSE <<search_from, search_to>>)

C3_Witness ==
    /\ pc = "found"
    /\ search_from = PNG
    /\ search_to = MP3
    /\ {<<PNG, MP3>>, <<PNG, JPEG>>, <<JPEG, MP3>>} \subseteq DOMAIN converters
    /\ path = Some(<<PNG, MP3>>)

(***************************************************************************)
(* C4: find_conversion_path(X, X) returns Some([X]) for every format X,    *)
(* whatever the registry holds (a self-edge (X,X), cycles through X).      *)
(***************************************************************************)
C4_IdentityPath ==
    (pc = "found" /\ search_from = search_to) => path = Some(<<search_from>>)

C4_Witness ==
    /\ pc = "found"
    /\ search_from = JPEG
    /\ search_to = JPEG
    /\ <<JPEG, JPEG>> \in DOMAIN converters
    /\ path = Some(<<JPEG>>)

(***************************************************************************)
(* Notions used by the properties of a request.                            *)
(***************************************************************************)
\* the request has passed validation and registration with a registry
Running == registry = "Some" /\ pc \notin {"build", "register"}

\* every converter registered so far, in the order of registration
Registered ==
    IF registry = "Some"
    THEN <<PngToJpeg>> \o SubSeq(custom_converters, 1, nreg)
    ELSE <<>>

\* the positions in Registered of the converters declared for the pair k
PositionsOf(k) == { i \in 1..Len(Registered) : Key(Registered[i]) = k }

Newest(k) == Registered[CHOOSE i \in PositionsOf(k) : \A j \in PositionsOf(k) : j <= i]

\* the temporary path the text describes for a hop reading input toward to_type
DescribedTemp(input, to_type) ==
    [dir |-> input.dir, temps |-> input.temps + 1, stem |-> input.stem,
     ext |-> get_extension_for_type(to_type)]

(***************************************************************************)
(* C5: with source and target not Unknown and a direct edge (source,       *)
(* target) registered, the request makes exactly one capability call, of   *)
(* the (source, target) capability on (source path, resolved output path); *)
(* no search is made, no other hop runs, no other file is written, and the *)
(* request returns what that call returned.                                *)
(***************************************************************************)
C5_DirectEdgeOnly ==
    (/\ Running
     /\ from.type # Unknown
     /\ to.type # Unknown
     /\ <<from.type, to.type>> \in DOMAIN converters)
    => /\ pc \in {"direct", "done"}
       /\ Len(calls) = 1
       /\ calls[1].converter = converters[<<from.type, to.type>>]
       /\ Key(calls[1].converter) = <<from.type, to.type>>
       /\ calls[1].input = from.path
       /\ calls[1].output = (IF to.path = None
                             THEN [from.path EXCEPT !.ext = get_extension_for_type(to.type)]
                             ELSE to.path[1])
       /\ path = None
       /\ dequeued = <<>>
       /\ DOMAIN artifacts \subseteq {calls[1].output}
       /\ pc = "done" => (result = calls[1].ret /\ result # Pending)

C5_Witness ==
    /\ pc = "done"
    /\ from.type = PNG
    /\ to.type = MP3
    /\ {<<PNG, MP3>>, <<PNG, JPEG>>, <<JPEG, MP3>>} \subseteq DOMAIN converters
    /\ Len(calls) = 1
    /\ result = Ok

(***************************************************************************)
(* C6 as stated: with an Unknown source or target the request fails with   *)
(* the configuration error, no capability is called and no file is read,   *)
(* created or written, whatever converters were registered.                *)
(***************************************************************************)
C6_Original ==
    (from.type = Unknown \/ to.type = Unknown) =>
        /\ calls = <<>>
        /\ artifacts = EmptyMap
        /\ pc \in {"build", "register", "done"}
        /\ pc = "done" => result \in {SourceNotSpecified, TargetNotSpecified}

(***************************************************************************)
(* C6 amended: with an Unknown source or target the request fails, no      *)
(* capability is called and no file is read, created or written, whatever  *)
(* converters were registered; the error is the configuration error when   *)
(* the builder holds a registry, and the missing-registry error when it    *)
(* holds none.                                                             *)
(***************************************************************************)
C6_UnknownFails ==
    (from.type = Unknown \/ to.type = Unknown) =>
        /\ calls = <<>>
        /\ artifacts = EmptyMap
        /\ pc \in {"build", "register", "done"}
        /\ pc = "done" =>
              result = (IF registry = "None" THEN NoRegistryError
                        ELSE IF from.type = Unknown THEN SourceNotSpecified
                        ELSE TargetNotSpecified)

C6_Witness ==
    /\ pc = "done"
    /\ registry = "Some"
    /\ from.type = Unknown
    /\ to.type = WAV
    /\ <<Unknown, WAV>> \in DOMAIN converters
    /\ result = SourceNotSpecified

(***************************************************************************)
(* C7: a request between two different formats, neither Unknown, that no   *)
(* chain of registered edges connects fails with the "no conversion path"  *)
(* error naming the source and the target; no capability is called and no  *)
(* file is written.                                                        *)
(***************************************************************************)
C7_NoPathError ==
    (/\ Running
     /\ from.type # Unknown
     /\ to.type # Unknown
     /\ from.type # to.type
     /\ ~Reachable(converters, from.type, to.type))
    => /\ calls = <<>>
       /\ artifacts = EmptyMap
       /\ pc \in {"search", "found", "done"}
       /\ pc = "done" => result = Err("NoConversionPath", from.type, to.type, "-")

C7_Witness ==
    /\ pc = "done"
    /\ from.type = MP3
    /\ to.type = JPEG
    /\ {<<MP3, WAV>>, <<WAV, MP3>>, <<PNG, JPEG>>} \subseteq DOMAIN converters
    /\ result = Err("NoConversionPath", MP3, JPEG, "-")

(***************************************************************************)
(* C8: after any sequence of register calls (the built-in one, then the    *)
(* custom converters in insertion order) the registry holds, for each      *)
(* ordered pair, the converter registered last for that pair and nothing   *)
(* for a pair never registered; every capability call of the request, be   *)
(* it direct or a hop, is made on the newest converter of its pair.        *)
(***************************************************************************)
C8_NewestWins ==
    /\ registry = "Some" =>
          /\ DOMAIN converters = { Key(Registered[i]) : i \in 1..Len(Registered) }
          /\ \A k \in DOMAIN converters : converters[k] = Newest(k)
    /\ \A i \in 1..Len(calls) : calls[i].converter = Newest(Key(calls[i].converter))

C8_Witness ==
    /\ pc = "done"
    /\ custom_converters = <<Converter(PNG, JPEG, "A"), Converter(PNG, JPEG, "B")>>
    /\ from.type = PNG
    /\ to.type = JPEG
    /\ Len(calls) = 1
    /\ calls[1].converter = Converter(PNG, JPEG, "B")

(***************************************************************************)
(* C9: in multi-hop execution the hop of the final pair is the only hop    *)
(* whose output path is the resolved output path, and every other hop      *)
(* writes to the temporary path derived from its own input path: same      *)
(* directory, extension of the hop's target format, marked file name.      *)
(***************************************************************************)
C9_Original ==
    IsSome(path) =>
        \A i \in 1..Len(calls) :
            /\ calls[i].output = output_path <=> i = Len(Unwrap(path)) - 1
            /\ i < Len(Unwrap(path)) - 1 =>
                  calls[i].output = DescribedTemp(calls[i].input, Unwrap(path)[i + 1])

(***************************************************************************)
(* C10: in multi-hop execution the hops are called in path order; the      *)
(* first reads the source path, each later one reads the path the hop      *)
(* before it wrote and is called only after that hop returned success; at  *)
(* most one hop is in progress at any time.                                *)
(***************************************************************************)
C10_HopsInSequence ==
    IsSome(path) =>
        /\ Len(calls) <= Len(Unwrap(path)) - 1
        /\ \A i \in 1..Len(calls) :
              /\ Key(calls[i].converter) = <<Unwrap(path)[i], Unwrap(path)[i + 1]>>
              /\ calls[i].input = (IF i = 1 THEN from.path ELSE calls[i - 1].output)
              /\ i < Len(calls) => calls[i].ret = Ok
              /\ calls[i].ret = Pending => (i = Len(calls) /\ pc = "running")

C10_Witness ==
    /\ pc = "done"
    /\ IsSome(path)
    /\ Unwrap(path) = <<PNG, JPEG, MP3, WAV>>
    /\ Len(calls) = 3
    /\ result = Ok

(***************************************************************************)
(* C11: when a hop of a multi-hop request fails, no later hop is called,   *)
(* the request returns that hop's error, and the files written by the      *)
(* hops before it are still there.                                         *)
(***************************************************************************)
C11_FirstFailureAborts ==
    IsSome(path) =>
        \A i \in 1..Len(calls) :
            calls[i].ret.status = "Err" =>
                /\ i = Len(calls)
                /\ pc = "done"
                /\ result = calls[i].ret
                /\ \A j \in 1..(i - 1) :
                      /\ calls[j].ret = Ok
                      /\ calls[j].output \in DOMAIN artifacts

C11_Witness ==
    /\ pc = "done"
    /\ IsSome(path)
    /\ Len(Unwrap(path)) = 4
    /\ Len(calls) = 2
    /\ calls[1].ret = Ok
    /\ calls[2].ret = ConversionFailure(calls[2].converter)
    /\ result = calls[2].ret
    /\ calls[1].output \in DOMAIN artifacts
    /\ calls[1].output # calls[2].output

(***************************************************************************)
(* C12: whenever a capability's convert returns success, its output path   *)
(* holds an artifact of the capability's declared target format; after a   *)
(* successful PngToJpeg call the output path holds a JPEG artifact.        *)
(***************************************************************************)
C12_Original ==
    (Len(calls) >= 1 /\ calls[Len(calls)].ret = Ok) =>
        /\ calls[Len(calls)].output \in DOMAIN artifacts
        /\ artifacts[calls[Len(calls)].output] = calls[Len(calls)].converter.to_type

(***************************************************************************)
(* C13: in every request that ends in success, whatever converters were    *)
(* registered, no executed hop has Unknown as its source or its target     *)
(* format, and no file with the extension "unknown" is written.            *)
(***************************************************************************)
C13_Original ==
    (pc = "done" /\ result = Ok) =>
        /\ \A i \in 1..Len(calls) :
              /\ calls[i].converter.from_type # Unknown
              /\ calls[i].converter.to_type # Unknown
        /\ \A p \in DOMAIN artifacts : p.ext # "unknown"

(***************************************************************************)
(* C14: can_convert(from, to) is true exactly when a capability declared   *)
(* for the ordered pair (from, to) is registered: it is false for (to,     *)
(* from) when only (from, to) is registered, and false for (A,C) when only *)
(* a chain from A to C is registered, although a path from A to C exists.  *)
(***************************************************************************)
C14_ExactPairOnly ==
    pc = "answered" =>
        LET f == Unwrap(answer).from
            t == Unwrap(answer).to
            declared == \E k \in DOMAIN converters :
                            /\ converters[k].from_type = f
                            /\ converters[k].to_type = t
        IN /\ Unwrap(answer).value <=> declared
           /\ (<<t, f>> \in DOMAIN converters /\ <<f, t>> \notin DOMAIN converters)
                 => ~Unwrap(answer).value
           /\ (Reachable(converters, f, t) /\ <<f, t>> \notin DOMAIN converters)
                 => ~Unwrap(answer).value

C14_Witness ==
    /\ pc = "answered"
    /\ Unwrap(answer).from = PNG
    /\ Unwrap(answer).to = MP3
    /\ ~Unwrap(answer).value
    /\ {<<PNG, JPEG>>, <<JPEG, MP3>>} \subseteq DOMAIN converters
    /\ <<PNG, MP3>> \notin DOMAIN converters
    /\ Reachable(converters, PNG, MP3)

(***************************************************************************)
(* C15: every path returned by find_conversion_path(from, to) starts with  *)
(* `from`, ends with `to`, holds no format twice, and each adjacent pair   *)
(* of it is a registered edge; so no hop of a multi-hop request fails with *)
(* the "No converter available" error of ConverterRegistry::convert.       *)
(***************************************************************************)
C15_PathWellFormed ==
    /\ IsSome(path) =>
          LET p == Unwrap(path)
          IN /\ p[1] = search_from
             /\ p[Len(p)] = search_to
             /\ \A i, j \in 1..Len(p) : p[i] = p[j] => i = j
             /\ \A i \in 1..(Len(p) - 1) : <<p[i], p[i + 1]>> \in DOMAIN converters
             /\ pc \in {"hops", "running", "done"} =>
                   (search_from = from.type /\ search_to = to.type)
    /\ result.kind # "NoConverter"

C15_Witness ==
    /\ pc = "done"
    /\ path = Some(<<PNG, JPEG, MP3>>)
    /\ <<MP3, PNG>> \in DOMAIN converters
    /\ Len(calls) = 2
    /\ result = Ok

(***************************************************************************)
(* C16: a successful multi-hop request over a path of k >= 2 hops has      *)
(* written k - 1 temporary files, at pairwise different paths that all     *)
(* differ from the source path, and all of them exist when the request     *)
(* returns; no file written by a returned call is ever removed.            *)
(***************************************************************************)
C16_TemporariesKept ==
    /\ (pc = "done" /\ result = Ok /\ IsSome(path) /\ Len(Unwrap(path)) - 1 >= 2) =>
          LET k == Len(Unwrap(path)) - 1
              temporaries == { calls[i].output : i \in 1..(k - 1) }
          IN /\ Len(calls) = k
             /\ Cardinality(temporaries) = k - 1
             /\ from.path \notin temporaries
             /\ temporaries \subseteq DOMAIN artifacts
    /\ \A i \in 1..Len(calls) : calls[i].ret = Ok => calls[i].output \in DOMAIN artifacts

C16_Witness ==
    /\ pc = "done"
    /\ result = Ok
    /\ IsSome(path)
    /\ Len(Unwrap(path)) = 4
    /\ Len(calls) = 3
    /\ Cardinality({ calls[i].output : i \in 1..2 }) = 2
    /\ { calls[i].output : i \in 1..2 } \subseteq DOMAIN artifacts

(***************************************************************************)
(* C17: whenever convert returns success, at least one capability was      *)
(* called during the request and the last call wrote the resolved output   *)
(* path, also when the source format equals the target format and no       *)
(* self-edge is registered.                                                *)
(***************************************************************************)
C17_Original ==
    (pc = "done" /\ result = Ok) =>
        /\ Len(calls) >= 1
        /\ calls[Len(calls)].output = output_path
        /\ output_path \in DOMAIN artifacts

(***************************************************************************)
(* C18: when the caller gives no explicit output path, no capability of    *)
(* the request, direct or hop, is called with an output path equal to its  *)
(* input path, and the source path is the output path of no call.          *)
(***************************************************************************)
C18_Original ==
    to.path = None =>
        \A i \in 1..Len(calls) :
            /\ calls[i].output # calls[i].input
            /\ calls[i].output # from.path

(***************************************************************************)
(* C19: find_conversion_path terminates for every registry, cycles and     *)
(* self-loops included: a started search returns, each format is put on    *)
(* the queue at most once, and no more formats are taken from the queue    *)
(* than there are formats.                                                 *)
(***************************************************************************)
Enqueued == dequeued \o queue

C19_SearchTerminates ==
    /\ [](pc = "search" =>
            /\ \A i, j \in 1..Len(Enqueued) : Enqueued[i] = Enqueued[j] => i = j
            /\ Len(dequeued) <= Cardinality(FileType))
    /\ [](pc = "found" => Len(dequeued) <= Cardinality(FileType))
    /\ (pc = "search") ~> (pc = "found")

C19_Witness ==
    /\ pc = "found"
    /\ {<<PNG, JPEG>>, <<JPEG, JPEG>>, <<JPEG, MP3>>, <<MP3, PNG>>} \subseteq DOMAIN converters
    /\ search_from = PNG
    /\ search_to = WAV
    /\ path = None
    /\ Len(dequeued) = 3

====
